---------------------------- MODULE Spec2Model ----------------------------
(***************************************************************************)
(* Model of the n8n AWS S3 vector-store nodes.                             *)
(*                                                                         *)
(*  - VectorStoreHelper.splitText (dist/src/VectorStoreAwsS3.node.js)      *)
(*    as a loop state machine: SpecSplit, SpecSplitFair.                   *)
(*  - VectorStoreAwsS3.execute with S3VectorStore.addDocuments /           *)
(*    insertVectors / similaritySearchWithScore, and S3Vector.execute with *)
(*    executeS3VectorInsert / executeS3VectorSearch: Spec.                 *)
(*                                                                         *)
(* Positions in a text are 0-based as in the JavaScript source; a text is  *)
(* a sequence of one-character strings.                                    *)
(***************************************************************************)
EXTENDS Integers, Sequences, FiniteSets, TLC

VARIABLES
    \* ---- splitText(text, chunkSize, chunkOverlap) ----
    text,          \* the argument text
    chunkSize,     \* the argument chunkSize
    chunkOverlap,  \* the argument chunkOverlap
    start,         \* local `start`
    end,           \* local `end` of the window being pushed
    chunks,        \* local `chunks`: each element remembers where it was cut
    result,        \* the returned array, once returned; each element is
                   \* [text |-> the string, from |-> where it was cut]
    spc            \* position in splitText: "call", "loop", "advance", "done"

splitVars == <<text, chunkSize, chunkOverlap, start, end, chunks, result, spc>>

VARIABLES
    \* ---- one invocation of a node's execute() ----
    node,            \* "VectorStoreAwsS3" or "S3Vector"
    operation,       \* the 'operation' parameter
    continueOnFail,  \* what this.continueOnFail() answers
    batchSizeOpt,    \* options.batchSize, 0 when the option is not set
    clearIndexOpt,   \* options.clearIndex (unset reads as false)
    items,           \* this.getInputData()
    i,               \* the item loop's index (0-based)
    j,               \* execute's batch loop offset into `documents`
    k,               \* insertVectors' loop offset into `vectors`
    pc,              \* position in execute
    returnData,      \* the local returnData array
    outcome,         \* "running", "returned" or "thrown"
    output,          \* the list execute returned, NoOutput before and on a throw
    thrownMsg,       \* the message of the error execute threw
    calls,           \* every external provider call made so far, in order
    stored           \* the vectors the storage provider has accepted

execVars == <<node, operation, continueOnFail, batchSizeOpt, clearIndexOpt, items,
              i, j, k, pc,
              returnData, outcome, output, thrownMsg, calls, stored>>

VARIABLES
    \* ---- one S3VectorStore and the index it manages at the provider ----
    initialized,     \* this.initialized
    index,           \* the provider's index: [exists, created, size]
    method,          \* the public method under way, "none" between calls
    caller,          \* who called ensureIndexExists
    stpc,            \* position in the method
    indexAtCall,     \* the index as it was when the method was called
    ops,             \* the method calls that have ended, in order
    storeCalls       \* the provider calls the store has made, in order

storeVars == <<initialized, index, method, caller, stpc, indexAtCall, ops, storeCalls>>

VARIABLES
    \* ---- the vector records of an index, inserted and searched ----
    rNode,           \* the node that inserts and searches
    rVectors,        \* the records the index holds: [key, data, metadata]
    rInserted,       \* every record a successful PutVectors carried, in order
    rIdCount,        \* how many ids generateId has made
    rInsertCount,    \* how many items have been put through the insert
    rQuery,          \* the search made: [text, topK], NoQuery before it
    rAnswer,         \* the records the provider answered the query with
    rResults,        \* the results the node gave for the query
    rpc              \* "ready", or "searched" after the search

recVars == <<rNode, rVectors, rInserted, rIdCount, rInsertCount, rQuery, rAnswer,
             rResults, rpc>>

\* what an invocation is given: the parameters and the input items
params == <<node, operation, continueOnFail, batchSizeOpt, clearIndexOpt, items>>

besidesSplit == <<execVars, storeVars, recVars>>
besidesExec == <<splitVars, storeVars, recVars>>
besidesStore == <<splitVars, execVars, recVars>>
besidesRec == <<splitVars, execVars, storeVars>>

vars == <<splitVars, execVars, storeVars, recVars>>

----------------------------------------------------------------------------
(* Bounds of the splitText inputs.                                         *)

MaxLen == 6
MaxChunkSize == 3

\* The characters texts are made of: a letter, the space that lastIndexOf(' ')
\* looks for, and a tab, which String.prototype.trim() strips but which is no
\* word boundary.
Chars == {"a", " ", "\t"}
Whitespace == {" ", "\t"}

\* In the source the array grows for as long as the loop runs.  The model
\* stops recording after MaxChunks elements; a loop whose cursor advances
\* pushes at most Len(text) chunks, so no terminating run reaches the cap.
MaxChunks == MaxLen + 2

Texts == UNION {[1..n -> Chars] : n \in 0..MaxLen}

----------------------------------------------------------------------------
(* JavaScript string primitives used by splitText.                         *)

Min(a, b) == IF a <= b THEN a ELSE b

\* the greatest of a non-empty set of numbers
Max(S) == CHOOSE x \in S : \A y \in S : y <= x

\* text.charAt(p), 0-based
CharAt(t, p) == t[p + 1]

\* text.slice(from, to) for 0 <= from: `to` is clamped to the length
Slice(t, from, to) ==
    LET hi == Min(to, Len(t))
    IN  IF hi <= from THEN <<>> ELSE SubSeq(t, from + 1, hi)

\* text.lastIndexOf(' ', fromIndex): the greatest index <= fromIndex holding
\* a space, or -1
LastIndexOfSpace(t, fromIndex) ==
    LET found == {p \in 0..Min(fromIndex, Len(t) - 1) : CharAt(t, p) = " "}
    IN  IF found = {} THEN -1 ELSE Max(found)

\* chunk.trim().length > 0
TrimNonEmpty(c) == \E n \in 1..Len(c) : c[n] \notin Whitespace

\* chunks.filter(chunk => chunk.trim().length > 0)
FilterChunks(cs) == SelectSeq(cs, LAMBDA c : TrimNonEmpty(c.text))

----------------------------------------------------------------------------
(* The idle state of the part of the model a specification does not use.  *)

NoOutput == <<"no output">>

\* No invocation of execute is under way.
ExecIdle ==
    /\ node = "none"
    /\ operation = "none"
    /\ continueOnFail = FALSE
    /\ batchSizeOpt = 0
    /\ clearIndexOpt = FALSE
    /\ items = <<>>
    /\ i = 0
    /\ j = 0
    /\ k = 0
    /\ pc = "idle"
    /\ returnData = <<>>
    /\ outcome = "running"
    /\ output = NoOutput
    /\ thrownMsg = <<>>
    /\ calls = <<>>
    /\ stored = {}

\* No store has been built; the provider has no index.
NoIndex == [exists |-> FALSE, created |-> 0, size |-> 0]

StoreIdle ==
    /\ initialized = FALSE
    /\ index = NoIndex
    /\ method = "none"
    /\ caller = "none"
    /\ stpc = "off"
    /\ indexAtCall = NoIndex
    /\ ops = <<>>
    /\ storeCalls = <<>>

NoQuery == [text |-> "none", topK |-> 0]

\* No record has been inserted or searched.
RecIdle ==
    /\ rNode = "none"
    /\ rVectors = {}
    /\ rInserted = <<>>
    /\ rIdCount = 0
    /\ rInsertCount = 0
    /\ rQuery = NoQuery
    /\ rAnswer = <<>>
    /\ rResults = <<>>
    /\ rpc = "off"

\* No call of splitText is under way.
SplitIdle ==
    /\ text = <<>>
    /\ chunkSize = 1
    /\ chunkOverlap = 0
    /\ start = 0
    /\ end = 0
    /\ chunks = <<>>
    /\ result = <<>>
    /\ spc = "idle"

----------------------------------------------------------------------------
(* splitText, dist/src/VectorStoreAwsS3.node.js lines 12-34.               *)

\* the window is one character too wide
WindowEndPastEdge(t, s, size) ==
    LET e == s + size + 1
    IN  IF e < Len(t)
        THEN LET lastSpace == LastIndexOfSpace(t, e)
             IN  IF lastSpace > s THEN lastSpace ELSE e
        ELSE e

\* the search for a space starts one position before the edge
WindowEndSearchBeforeEdge(t, s, size) ==
    LET e == s + size
    IN  IF e < Len(t)
        THEN LET lastSpace == LastIndexOfSpace(t, e - 1)
             IN  IF lastSpace > s THEN lastSpace ELSE e
        ELSE e

\* lines 19-26: the right edge of the window that starts at s
WindowEnd(t, s, size) ==
    LET e == s + size
    IN  IF e < Len(t)
        THEN LET lastSpace == LastIndexOfSpace(t, e)
             IN  IF lastSpace > s THEN lastSpace ELSE e
        ELSE e

\* lines 29-31: the next cursor
NextStart(e, overlap) ==
    IF e - overlap <= 0 THEN e ELSE e - overlap

\* line 27: chunks.push(text.slice(start, end))
PushChunk(cs, t, s, e) ==
    IF Len(cs) < MaxChunks
    THEN Append(cs, [from |-> s, text |-> Slice(t, s, e)])
    ELSE cs

InitSplit ==
    /\ text \in Texts
    /\ chunkSize \in 1..MaxChunkSize
    /\ chunkOverlap \in 0..MaxChunkSize
    /\ start = 0
    /\ end = 0
    /\ chunks = <<>>
    /\ result = <<>>
    /\ spc = "call"
    /\ ExecIdle
    /\ StoreIdle
    /\ RecIdle

\* the short text goes through the filter of line 33 too
SplitEnterFiltered ==
    /\ spc = "call"
    /\ IF Len(text) <= chunkSize
       THEN /\ result' = FilterChunks(<<[from |-> 0, text |-> text]>>)
            /\ spc' = "done"
       ELSE /\ result' = result
            /\ spc' = "loop"
    /\ UNCHANGED <<text, chunkSize, chunkOverlap, start, end, chunks>>
    /\ UNCHANGED besidesSplit

\* lines 13-17
SplitEnter ==
    /\ spc = "call"
    /\ IF Len(text) <= chunkSize
       THEN /\ result' = <<[from |-> 0, text |-> text]>>
            /\ spc' = "done"
       ELSE /\ result' = result
            /\ spc' = "loop"
    /\ UNCHANGED <<text, chunkSize, chunkOverlap, start, end, chunks>>
    /\ UNCHANGED besidesSplit

\* lines 18-27: one window
SplitWindow ==
    /\ spc = "loop"
    /\ start < Len(text)
    /\ end' = WindowEnd(text, start, chunkSize)
    /\ chunks' = PushChunk(chunks, text, start, end')
    /\ spc' = "advance"
    /\ UNCHANGED <<text, chunkSize, chunkOverlap, start, result>>
    /\ UNCHANGED besidesSplit

\* lines 28-31: move the cursor
SplitAdvance ==
    /\ spc = "advance"
    /\ start' = NextStart(end, chunkOverlap)
    /\ spc' = "loop"
    /\ UNCHANGED <<text, chunkSize, chunkOverlap, end, chunks, result>>
    /\ UNCHANGED besidesSplit

\* lines 18 and 33: the loop condition fails, the filtered array is returned
SplitReturn ==
    /\ spc = "loop"
    /\ start >= Len(text)
    /\ result' = FilterChunks(chunks)
    /\ spc' = "done"
    /\ UNCHANGED <<text, chunkSize, chunkOverlap, start, end, chunks>>
    /\ UNCHANGED besidesSplit

NextSplit ==
    \/ SplitEnter
    \/ SplitWindow
    \/ SplitAdvance
    \/ SplitReturn

SpecSplit == InitSplit /\ [][NextSplit]_vars

\* splitText is synchronous code: once called it keeps running.
SpecSplitFair == InitSplit /\ [][NextSplit]_vars /\ WF_vars(NextSplit)

----------------------------------------------------------------------------
(* splitText at the node's default parameters, on long texts whose spaces  *)
(* come at regular distances.                                              *)

\* the default of the chunkSize parameter
DefaultChunkSize == 1000

\* the default of the chunkOverlap parameter
DefaultChunkOverlap == 200

Spacings == {50 * m : m \in 2..24}
Offsets == {0, 50}

\* a text of 2500 characters with a space at every position p
\* (counted from 0) such that p % spacing = offset
SpacedText(spacing, offset) ==
    [n \in 1..2500 |-> IF (n - 1) % spacing = offset THEN " " ELSE "a"]

SpacedTexts == {SpacedText(d, o) : d \in Spacings, o \in Offsets}

InitSpaced ==
    /\ text \in SpacedTexts
    /\ chunkSize = DefaultChunkSize
    /\ chunkOverlap = DefaultChunkOverlap
    /\ start = 0
    /\ end = 0
    /\ chunks = <<>>
    /\ result = <<>>
    /\ spc = "call"
    /\ ExecIdle
    /\ StoreIdle
    /\ RecIdle

SpecSpaced == InitSpaced /\ [][NextSplit]_vars

----------------------------------------------------------------------------
(* One invocation of execute(): VectorStoreAwsS3 (dist/src/                *)
(* VectorStoreAwsS3.node.js, with the S3VectorStore of dist/src/           *)
(* S3VectorStore.js) and S3Vector (src/S3Vector.node.ts).                  *)
(*                                                                         *)
(* An input item is [valid, nChunks]: `valid` says whether the item passes *)
(* the node's own validation (the text field holds a non-empty string on   *)
(* insert, options.metadataFilter parses on search), nChunks is the number *)
(* of chunks the splitter returns for the item's text.  Every await of a   *)
(* provider call is one action, which the provider answers or fails.       *)

MaxItems == 2

\* line 154 of S3VectorStore.js: const batchSize = 100
StoreBatchSize == 100
\* line 405 of VectorStoreAwsS3.node.js: options.batchSize || 100
DefaultBatchSize == 100

\* the values of options.batchSize tried (0: the option is not set)
BatchSizeOpts == {0, 50, 150}
\* the chunk counts tried
ChunkCounts == {0, 1, 100, 150, 250}
\* how many matches the provider may answer a query with
ProviderResultCounts == {0, 2}

\* the response field the provider's records come in: searchVectors reads
\* response.matches, else response.results (S3VectorStore.js line 181),
\* search_vectors reads queryResponse.vectors (S3Vector.node.ts line 247)
ResponseFields == {"matches", "results", "vectors"}

\* the records the provider holds and may answer with
ProviderRecords ==
    {[key |-> "k1", metadata |-> [content |-> "c1"], score |-> 1],
     [key |-> "k2", metadata |-> [content |-> "c2"], score |-> 2]}

\* what the provider may answer a query with: its records in its order
ProviderAnswers ==
    {a \in UNION {[1..n -> ProviderRecords] : n \in ProviderResultCounts} :
        \A x, y \in DOMAIN a : x # y => a[x] # a[y]}

Nodes == {"VectorStoreAwsS3", "S3Vector"}
Operations == {"insert", "search"}

\* the message of an error thrown by a provider SDK call
ProviderMsg == "provider error message"

\* the items an invocation may get, by node and operation
ItemKinds(nd, op) ==
    IF op = "insert"
    THEN {[valid |-> TRUE, nChunks |-> n] : n \in ChunkCounts}
         \cup (IF nd = "VectorStoreAwsS3" THEN {[valid |-> FALSE, nChunks |-> 0]} ELSE {})
    ELSE {[valid |-> TRUE, nChunks |-> 0]}
         \cup (IF nd = "VectorStoreAwsS3" THEN {[valid |-> FALSE, nChunks |-> 0]} ELSE {})

ItemLists(nd, op) == UNION {[1..n -> ItemKinds(nd, op)] : n \in 0..MaxItems}

Init ==
    /\ SplitIdle
    /\ StoreIdle
    /\ RecIdle
    /\ node \in Nodes
    /\ operation \in Operations
    /\ continueOnFail \in BOOLEAN
    /\ batchSizeOpt \in (IF node = "VectorStoreAwsS3" /\ operation = "insert"
                         THEN BatchSizeOpts ELSE {0})
    /\ clearIndexOpt \in (IF node = "VectorStoreAwsS3" /\ operation = "insert"
                          THEN BOOLEAN ELSE {FALSE})
    /\ items \in ItemLists(node, operation)
    /\ i = 0
    /\ j = 0
    /\ k = 0
    /\ pc = "loop"
    /\ returnData = <<>>
    /\ outcome = "running"
    /\ output = NoOutput
    /\ thrownMsg = <<>>
    /\ calls = <<>>
    /\ stored = {}

\* items[i].json and the parameters of item i
Item == items[i + 1]

\* VectorStoreAwsS3.node.js line 405
batchSize == IF batchSizeOpt # 0 THEN batchSizeOpt ELSE DefaultBatchSize

\* line 409: documents.slice(j, j + batchSize).length
BatchLen == Min(batchSize, Item.nChunks - j)

\* S3VectorStore.js line 156: vectors.slice(i, i + batchSize).length
PutLen == Min(StoreBatchSize, BatchLen - k)

\* one provider call, as the log keeps it: records from .. from+size-1 of
\* item `item`
Call(api, from, size, ok) ==
    [api |-> api, item |-> i, from |-> from, size |-> size, ok |-> ok]

\* a QueryVectors call the provider answered with `records` in `field`
Answer(field, records) ==
    [api |-> "QueryVectors", item |-> i, from |-> 0, size |-> 1, ok |-> TRUE,
     field |-> field, records |-> records]

\* searchVectors lines 181-189, similaritySearchVectorWithScore lines 110-116
\* and execute lines 464-477: the records read from the response, mapped
VsSearchResults(field, records) ==
    LET results == IF field \in {"matches", "results"} THEN records ELSE <<>>
    IN  [n \in 1..Len(results) |->
            [content |-> results[n].metadata.content,
             metadata |-> results[n].metadata,
             score |-> results[n].score]]

\* search_vectors line 247: queryResponse.vectors || []
S3SearchResults(field, records) ==
    IF field = "vectors" THEN records ELSE <<>>

\* the loop goes to the next item while the record of this one is not in
\* returnData yet
PushSuccessDeferred(rec) ==
    /\ i' = i + 1
    /\ pc' = "loop"
    /\ UNCHANGED <<returnData, outcome, output, thrownMsg>>

\* returnData.push(...) of a success record; the loop goes to the next item
PushSuccess(rec) ==
    /\ returnData' = Append(returnData, rec)
    /\ i' = i + 1
    /\ pc' = "loop"
    /\ UNCHANGED <<outcome, output, thrownMsg>>

\* the item goes on to its next await
Goto(label) ==
    /\ pc' = label
    /\ UNCHANGED <<i, returnData, outcome, output, thrownMsg>>

\* the catch rethrows whatever the flag says
VsCatchAlwaysThrows(msg) ==
    /\ outcome' = "thrown"
    /\ thrownMsg' = msg
    /\ pc' = "done"
    /\ UNCHANGED <<i, returnData, output>>

\* the catch goes on to the next item without a record for the failed one
VsCatchDropsItem(msg) ==
    IF continueOnFail
    THEN /\ i' = i + 1
         /\ pc' = "loop"
         /\ UNCHANGED <<returnData, outcome, output, thrownMsg>>
    ELSE /\ outcome' = "thrown"
         /\ thrownMsg' = msg
         /\ pc' = "done"
         /\ UNCHANGED <<i, returnData, output>>

\* VectorStoreAwsS3.node.js lines 507-523: the per-item catch
VsCatch(msg) ==
    IF continueOnFail
    THEN /\ returnData' = Append(returnData,
                [success |-> FALSE, error |-> msg, operation |-> operation,
                 itemIndex |-> i])
         /\ i' = i + 1
         /\ pc' = "loop"
         /\ UNCHANGED <<outcome, output, thrownMsg>>
    ELSE /\ outcome' = "thrown"
         /\ thrownMsg' = msg
         /\ pc' = "done"
         /\ UNCHANGED <<i, returnData, output>>

\* the catch records the failure and never rethrows
S3CatchNeverThrows(msg) ==
    /\ returnData' = Append(returnData, [success |-> FALSE, error |-> msg])
    /\ i' = i + 1
    /\ pc' = "loop"
    /\ UNCHANGED <<outcome, output, thrownMsg>>

\* S3Vector.node.ts lines 293-305 and 332-344, with the catch of
\* S3Vector.execute (lines 142-165) that the rethrown error lands in: the
\* error is logged and execute throws `Unsupported operation`
S3Catch(msg) ==
    /\ returnData' = Append(returnData, [success |-> FALSE, error |-> msg])
    /\ IF continueOnFail
       THEN /\ i' = i + 1
            /\ pc' = "loop"
            /\ UNCHANGED <<outcome, output, thrownMsg>>
       ELSE /\ outcome' = "thrown"
            /\ thrownMsg' = <<"Unsupported operation: ", operation>>
            /\ pc' = "done"
            /\ UNCHANGED <<i, output>>

\* ---- VectorStoreAwsS3, insert ----

\* lines 329-403: parameters, validation of the text field, chunking,
\* documents, vectorStore.initialize() (which makes no provider call in
\* dist/src/S3VectorStore.js), and the batch loop's first test
VsInsertItem ==
    /\ pc = "loop" /\ node = "VectorStoreAwsS3" /\ operation = "insert"
    /\ i < Len(items)
    /\ j' = 0
    /\ k' = 0
    /\ IF ~Item.valid
       THEN VsCatch(<<"No valid text found in field">>)
       ELSE IF Item.nChunks = 0
       THEN PushSuccess([success |-> TRUE, operation |-> "insert",
                         documentsInserted |-> 0, chunksCreated |-> 0,
                         insertedIds |-> 0])
       ELSE Goto("addDocuments")
    /\ UNCHANGED <<params, calls, stored>>
    /\ UNCHANGED besidesExec

\* a failed embedDocuments is passed over and the batch is inserted
VsEmbedDocumentsFailureIgnored ==
    /\ pc = "addDocuments"
    /\ \E ok \in BOOLEAN :
         /\ calls' = Append(calls, Call("embedDocuments", j, BatchLen, ok))
         /\ Goto("insertVectors")
    /\ k' = 0
    /\ UNCHANGED <<params, j, stored>>
    /\ UNCHANGED besidesExec

\* line 411 and S3VectorStore.addDocuments lines 48-54: embedDocuments over
\* the texts of the batch
VsEmbedDocuments ==
    /\ pc = "addDocuments"
    /\ \E ok \in BOOLEAN :
         /\ calls' = Append(calls, Call("embedDocuments", j, BatchLen, ok))
         /\ IF ok
            THEN Goto("insertVectors")
            ELSE VsCatch(<<ProviderMsg>>)
    /\ k' = 0
    /\ UNCHANGED <<params, j, stored>>
    /\ UNCHANGED besidesExec

\* after the first PutVectors of a batch the rest of the batch is left out
VsAfterPutOncePerBatch ==
    IF j + batchSize < Item.nChunks
    THEN /\ j' = j + batchSize
         /\ k' = 0
         /\ Goto("addDocuments")
    ELSE /\ UNCHANGED <<j, k>>
         /\ PushSuccess([success |-> TRUE, operation |-> "insert",
                         documentsInserted |-> Item.nChunks,
                         chunksCreated |-> Item.nChunks,
                         insertedIds |-> j + BatchLen])

\* S3VectorStore.insertVectors line 155, addDocuments lines 73 and execute
\* lines 408-429, after a PutVectors that succeeded: the next PutVectors of
\* this batch, else the next batch, else the item's success record
VsAfterPut ==
    IF k + StoreBatchSize < BatchLen
    THEN /\ k' = k + StoreBatchSize
         /\ j' = j
         /\ Goto("insertVectors")
    ELSE IF j + batchSize < Item.nChunks
    THEN /\ j' = j + batchSize
         /\ k' = 0
         /\ Goto("addDocuments")
    ELSE /\ UNCHANGED <<j, k>>
         /\ PushSuccess([success |-> TRUE, operation |-> "insert",
                         documentsInserted |-> Item.nChunks,
                         chunksCreated |-> Item.nChunks,
                         insertedIds |-> j + BatchLen])

\* the failed batch is given up and the loop goes on
VsPutFailedSkipsBatch ==
    /\ UNCHANGED stored
    /\ VsAfterPut

\* the PutVectors that failed is sent again
VsPutFailedRetries ==
    /\ Goto("insertVectors")
    /\ UNCHANGED <<j, k, stored>>

\* S3VectorStore.insertVectors lines 167-170: a PutVectors that failed
\* leaves the loop; the error is rethrown with a prefix and reaches
\* execute's catch
VsPutFailed ==
    /\ VsCatch(<<"Failed to insert vectors: ", ProviderMsg>>)
    /\ UNCHANGED <<j, k, stored>>

\* S3VectorStore.insertVectors lines 151-171: one PutVectors
VsPutVectors ==
    /\ pc = "insertVectors"
    /\ \E ok \in BOOLEAN :
         /\ calls' = Append(calls, Call("PutVectors", j + k, PutLen, ok))
         /\ IF ok
            THEN /\ stored' = stored \cup {[item |-> i, from |-> j + k, size |-> PutLen]}
                 /\ VsAfterPut
            ELSE VsPutFailed
    /\ UNCHANGED <<params>>
    /\ UNCHANGED besidesExec

\* ---- VectorStoreAwsS3, search ----

\* the filter is parsed only after the query has been sent
VsSearchItemParsesLate ==
    /\ pc = "loop" /\ node = "VectorStoreAwsS3" /\ operation = "search"
    /\ i < Len(items)
    /\ Goto("embedQuery")
    /\ UNCHANGED <<params, j, k, calls, stored>>
    /\ UNCHANGED besidesExec

\* lines 329-360 and 432-449: parameters, the metadata filter, initialize()
VsSearchItem ==
    /\ pc = "loop" /\ node = "VectorStoreAwsS3" /\ operation = "search"
    /\ i < Len(items)
    /\ IF ~Item.valid
       THEN VsCatch(<<"Invalid JSON in metadata filter">>)
       ELSE Goto("embedQuery")
    /\ UNCHANGED <<params, j, k, calls, stored>>
    /\ UNCHANGED besidesExec

\* line 452 and similaritySearchWithScore line 124; a failure is caught at
\* line 497 and rethrown with a prefix
VsEmbedQuery ==
    /\ pc = "embedQuery"
    /\ \E ok \in BOOLEAN :
         /\ calls' = Append(calls, Call("embedQuery", 0, 1, ok))
         /\ IF ok
            THEN Goto("queryVectors")
            ELSE VsCatch(<<"Failed to search vectors: ", ProviderMsg>>)
    /\ UNCHANGED <<params, j, k, stored>>
    /\ UNCHANGED besidesExec

\* searchVectors lines 172-195, then lines 464-495
VsQueryVectors ==
    /\ pc = "queryVectors"
    /\ \E ok \in BOOLEAN :
         IF ok
         THEN \E field \in ResponseFields, records \in ProviderAnswers :
                 LET processedResults == VsSearchResults(field, records)
                 IN  /\ calls' = Append(calls, Answer(field, records))
                     /\ PushSuccess([success |-> TRUE, operation |-> "search",
                                      resultsCount |-> Len(processedResults),
                                      results |-> processedResults])
         ELSE /\ calls' = Append(calls, Call("QueryVectors", 0, 1, FALSE))
              /\ VsCatch(<<"Failed to search vectors: ",
                           "Failed to search vectors: ", ProviderMsg>>)
    /\ UNCHANGED <<params, j, k, stored>>
    /\ UNCHANGED besidesExec

\* ---- S3Vector, insert ----

\* executeS3VectorInsert lines 275-283 and insert_data line 206: the
\* parameters and generateChunks
S3InsertItem ==
    /\ pc = "loop" /\ node = "S3Vector" /\ operation = "insert"
    /\ i < Len(items)
    /\ Goto("s3EmbedDocuments")
    /\ UNCHANGED <<params, j, k, calls, stored>>
    /\ UNCHANGED besidesExec

\* insert_data line 207: one embedDocuments over all chunks of the item
S3EmbedDocuments ==
    /\ pc = "s3EmbedDocuments"
    /\ \E ok \in BOOLEAN :
         /\ calls' = Append(calls, Call("embedDocuments", 0, Item.nChunks, ok))
         /\ IF ok
            THEN Goto("s3PutVectors")
            ELSE S3Catch(<<ProviderMsg>>)
    /\ UNCHANGED <<params, j, k, stored>>
    /\ UNCHANGED besidesExec

\* insert_data lines 223-227: one PutVectors with all vectors of the item;
\* then lines 284-292
S3PutVectors ==
    /\ pc = "s3PutVectors"
    /\ \E ok \in BOOLEAN :
         /\ calls' = Append(calls, Call("PutVectors", 0, Item.nChunks, ok))
         /\ IF ok
            THEN /\ stored' = stored \cup
                        {[item |-> i, from |-> 0, size |-> Item.nChunks]}
                 /\ PushSuccess([success |-> TRUE])
            ELSE /\ S3Catch(<<ProviderMsg>>)
                 /\ UNCHANGED stored
    /\ UNCHANGED <<params, j, k>>
    /\ UNCHANGED besidesExec

\* ---- S3Vector, search ----

\* executeS3VectorSearch lines 319-324
S3SearchItem ==
    /\ pc = "loop" /\ node = "S3Vector" /\ operation = "search"
    /\ i < Len(items)
    /\ Goto("s3EmbedQuery")
    /\ UNCHANGED <<params, j, k, calls, stored>>
    /\ UNCHANGED besidesExec

\* search_vectors line 235
S3EmbedQuery ==
    /\ pc = "s3EmbedQuery"
    /\ \E ok \in BOOLEAN :
         /\ calls' = Append(calls, Call("embedQuery", 0, 1, ok))
         /\ IF ok
            THEN Goto("s3QueryVectors")
            ELSE S3Catch(<<ProviderMsg>>)
    /\ UNCHANGED <<params, j, k, stored>>
    /\ UNCHANGED besidesExec

\* search_vectors lines 238-250, then lines 325-331
S3QueryVectors ==
    /\ pc = "s3QueryVectors"
    /\ \E ok \in BOOLEAN :
         IF ok
         THEN \E field \in ResponseFields, records \in ProviderAnswers :
                 /\ calls' = Append(calls, Answer(field, records))
                 /\ PushSuccess([success |-> TRUE,
                                  results |-> S3SearchResults(field, records)])
         ELSE /\ calls' = Append(calls, Call("QueryVectors", 0, 1, FALSE))
              /\ S3Catch(<<ProviderMsg>>)
    /\ UNCHANGED <<params, j, k, stored>>
    /\ UNCHANGED besidesExec

\* the item loop is over: return [returnData]
ExecReturn ==
    /\ pc = "loop"
    /\ i >= Len(items)
    /\ output' = returnData
    /\ outcome' = "returned"
    /\ pc' = "done"
    /\ UNCHANGED <<params, i, j, k,
                   returnData, thrownMsg, calls, stored>>
    /\ UNCHANGED besidesExec

Next ==
    \/ VsInsertItem
    \/ VsEmbedDocuments
    \/ VsPutVectors
    \/ VsSearchItem
    \/ VsEmbedQuery
    \/ VsQueryVectors
    \/ S3InsertItem
    \/ S3EmbedDocuments
    \/ S3PutVectors
    \/ S3SearchItem
    \/ S3EmbedQuery
    \/ S3QueryVectors
    \/ ExecReturn

Spec == Init /\ [][Next]_vars

----------------------------------------------------------------------------
(* The life of one S3VectorStore as its TypeScript source has it           *)
(* (src/unnamed/part_000: initialize() does call ensureIndexExists), and   *)
(* of the index it manages.  The store is the only writer of the index.    *)
(* Every await of a provider call is one action; an error is               *)
(* [name, message], the message a sequence of pieces.                      *)

\* the number of method calls made on the store
MaxOps == 2

Ok == <<"ok">>
Crashed == <<"crashed">>

\* the answer of a call that succeeded
NoError == [name |-> "none", message |-> <<>>]

\* what CreateIndex fails with when the index is there already
AlreadyExistsErrors ==
    {[name |-> "ConflictException", message |-> <<"conflict">>],
     [name |-> "ResourceAlreadyExistsException", message |-> <<"resource exists">>],
     [name |-> "ValidationException", message |-> <<"index ", "already exists">>]}

\* any other failure of a call to the storage provider
OtherErrors == {[name |-> "AccessDeniedException", message |-> <<ProviderMsg>>]}

\* a call on an index that is not there
NotFoundErrors == {[name |-> "NotFoundException", message |-> <<"index not found">>]}

\* a failure of the embedding provider
EmbedErrors == {[name |-> "ThrottlingException", message |-> <<ProviderMsg>>]}

\* the catch takes nothing for `already exists`
IsAlreadyExistsNever(err) == FALSE

\* ensureIndexExists lines 261-263: the test of the caught error
IsAlreadyExists(err) ==
    \/ err.name = "ResourceAlreadyExistsException"
    \/ err.name = "ConflictException"
    \/ \E t \in 1..Len(err.message) : err.message[t] = "already exists"

InitStore ==
    /\ SplitIdle
    /\ ExecIdle
    /\ RecIdle
    /\ initialized = FALSE
    /\ index \in {NoIndex, [exists |-> TRUE, created |-> 0, size |-> 0],
                  [exists |-> TRUE, created |-> 0, size |-> 1]}
    /\ method = "none"
    /\ caller = "none"
    /\ stpc = "idle"
    /\ indexAtCall = index
    /\ ops = <<>>
    /\ storeCalls = <<>>

\* a provider call of the method under way, as the log keeps it
StoreCall(api, err) ==
    [op |-> Len(ops) + 1, api |-> api, ok |-> (err = NoError), err |-> err]

\* the method under way ends with `res` (Ok, or the message of the error it
\* throws), leaving the index as `ix`
Complete(res, ix) ==
    /\ ops' = Append(ops, [method |-> method, result |-> res,
                           before |-> indexAtCall, after |-> ix])
    /\ index' = ix
    /\ method' = "none"
    /\ caller' = "none"
    /\ stpc' = "idle"

\* the method under way goes on to its next await
StoreGoto(label, cl, ix) ==
    /\ stpc' = label
    /\ caller' = cl
    /\ index' = ix
    /\ UNCHANGED <<method, ops>>

\* `await this.initialize()` has returned in method m: initialize itself
\* returns, clearIndex (line 209) and addDocuments (line 90) go on
AfterInitialize(m, ix) ==
    IF m = "initialize"
    THEN Complete(Ok, ix)
    ELSE StoreGoto(IF m = "clearIndex" THEN "deleteIndex" ELSE "embedDocuments",
                   "none", ix)

\* new S3VectorStore(...), lines 46-59
NewStore ==
    /\ stpc = "idle"
    /\ initialized
    /\ initialized' = FALSE
    /\ UNCHANGED <<index, method, caller, stpc, indexAtCall, ops, storeCalls>>
    /\ UNCHANGED besidesStore

\* a public method is called: initialize() (lines 65-77), clearIndex()
\* (lines 204-215) or addDocuments() with one document (lines 82-114); each
\* begins with initialize(), which returns at once when the flag is set
Enter(m) ==
    /\ stpc = "idle"
    /\ Len(ops) < MaxOps
    /\ indexAtCall' = index
    /\ IF ~initialized
       THEN /\ method' = m
            /\ stpc' = "ensureEmbed"
            /\ caller' = "initialize"
            /\ UNCHANGED ops
       ELSE IF m = "initialize"
       THEN /\ ops' = Append(ops, [method |-> m, result |-> Ok,
                                   before |-> index, after |-> index])
            /\ UNCHANGED <<method, stpc, caller>>
       ELSE /\ method' = m
            /\ stpc' = IF m = "clearIndex" THEN "deleteIndex" ELSE "embedDocuments"
            /\ caller' = "none"
            /\ UNCHANGED ops
    /\ UNCHANGED <<initialized, index, storeCalls>>
    /\ UNCHANGED besidesStore

\* lines 65-77
Initialize ==
    /\ method = "none"
    /\ Enter("initialize")

\* lines 204-215
ClearIndex ==
    /\ method = "none"
    /\ Enter("clearIndex")

\* lines 82-114, with one document
AddDocuments ==
    /\ method = "none"
    /\ Enter("addDocuments")

\* ensureIndexExists returns: to initialize (line 72 sets the flag) or to
\* clearIndex (line 210, which then returns)
EnsureReturns(ix) ==
    IF caller = "initialize"
    THEN /\ initialized' = TRUE
         /\ AfterInitialize(method, ix)
    ELSE /\ UNCHANGED initialized
         /\ Complete(Ok, ix)

\* ensureIndexExists throws (lines 267-268) into the catch of initialize
\* (lines 73-76) or of clearIndex (lines 211-214); nothing catches after
EnsureThrows(msg, ix) ==
    /\ UNCHANGED initialized
    /\ Complete((IF caller = "initialize"
                 THEN <<"Failed to initialize S3 Vector Store: ">>
                 ELSE <<"Failed to clear S3 Vector index: ">>)
                \o <<"Failed to ensure vector index exists: ">> \o msg, ix)

\* ensureIndexExists lines 259-269: the catch around both awaits
EnsureCatch(err, ix) ==
    IF IsAlreadyExists(err) THEN EnsureReturns(ix) ELSE EnsureThrows(err.message, ix)

\* ensureIndexExists line 249, getEmbeddingDimensions lines 339-343:
\* embedQuery('test')
GetEmbeddingDimensions ==
    /\ stpc = "ensureEmbed"
    /\ \/ /\ storeCalls' = Append(storeCalls, StoreCall("embedQuery", NoError))
          /\ StoreGoto("ensureCreate", caller, index)
          /\ UNCHANGED initialized
       \/ \E err \in EmbedErrors :
             /\ storeCalls' = Append(storeCalls, StoreCall("embedQuery", err))
             /\ EnsureCatch(err, index)
    /\ UNCHANGED indexAtCall
    /\ UNCHANGED besidesStore

\* ensureIndexExists lines 251-258: CreateIndex, which the provider refuses
\* when the index is there
CreateIndex ==
    /\ stpc = "ensureCreate"
    /\ \/ /\ ~index.exists
          /\ storeCalls' = Append(storeCalls, StoreCall("CreateIndex", NoError))
          /\ EnsureReturns([exists |-> TRUE, created |-> index.created + 1,
                            size |-> 0])
       \/ \E err \in (IF index.exists THEN AlreadyExistsErrors ELSE {}) \cup OtherErrors :
             /\ storeCalls' = Append(storeCalls, StoreCall("CreateIndex", err))
             /\ EnsureCatch(err, index)
    /\ UNCHANGED indexAtCall
    /\ UNCHANGED besidesStore

\* clearIndex goes on without deleting
DeleteIndexSkipped ==
    /\ stpc = "deleteIndex"
    /\ StoreGoto("ensureEmbed", "clearIndex", index)
    /\ UNCHANGED <<initialized, indexAtCall, storeCalls>>
    /\ UNCHANGED besidesStore

\* clearIndex line 209, deleteIndex lines 323-337; a failure is rethrown
\* with a prefix by deleteIndex and again by clearIndex (lines 211-214)
DeleteIndex ==
    /\ stpc = "deleteIndex"
    /\ \/ /\ index.exists
          /\ storeCalls' = Append(storeCalls, StoreCall("DeleteIndex", NoError))
          /\ StoreGoto("ensureEmbed", "clearIndex",
                       [index EXCEPT !.exists = FALSE, !.size = 0])
       \/ \E err \in (IF index.exists THEN OtherErrors ELSE NotFoundErrors) :
             /\ storeCalls' = Append(storeCalls, StoreCall("DeleteIndex", err))
             /\ Complete(<<"Failed to clear S3 Vector index: ",
                           "Failed to delete vector index: ">> \o err.message, index)
    /\ UNCHANGED <<initialized, indexAtCall>>
    /\ UNCHANGED besidesStore

\* addDocuments lines 89-90: embedDocuments; nothing catches its failure
StoreEmbedDocuments ==
    /\ stpc = "embedDocuments"
    /\ \/ /\ storeCalls' = Append(storeCalls, StoreCall("embedDocuments", NoError))
          /\ StoreGoto("insertVectors", "none", index)
       \/ \E err \in EmbedErrors :
             /\ storeCalls' = Append(storeCalls, StoreCall("embedDocuments", err))
             /\ Complete(err.message, index)
    /\ UNCHANGED <<initialized, indexAtCall>>
    /\ UNCHANGED besidesStore

\* addDocuments line 111, insertVectors lines 272-293: PutVectors of the
\* one document
InsertVectors ==
    /\ stpc = "insertVectors"
    /\ \/ /\ index.exists
          /\ storeCalls' = Append(storeCalls, StoreCall("PutVectors", NoError))
          /\ Complete(Ok, [index EXCEPT !.size = index.size + 1])
       \/ \E err \in (IF index.exists THEN OtherErrors ELSE NotFoundErrors) :
             /\ storeCalls' = Append(storeCalls, StoreCall("PutVectors", err))
             /\ Complete(<<"Failed to insert vectors: ">> \o err.message, index)
    /\ UNCHANGED <<initialized, indexAtCall>>
    /\ UNCHANGED besidesStore

\* the process stops while a call is awaited; the store object is gone
Crash ==
    /\ stpc \in {"ensureEmbed", "ensureCreate", "deleteIndex", "embedDocuments",
                 "insertVectors"}
    /\ Complete(Crashed, index)
    /\ initialized' = FALSE
    /\ UNCHANGED <<indexAtCall, storeCalls>>
    /\ UNCHANGED besidesStore

NextStore ==
    \/ NewStore
    \/ Initialize
    \/ ClearIndex
    \/ AddDocuments
    \/ GetEmbeddingDimensions
    \/ CreateIndex
    \/ DeleteIndex
    \/ StoreEmbedDocuments
    \/ InsertVectors
    \/ Crash

SpecStore == InitStore /\ [][NextStore]_vars

----------------------------------------------------------------------------
(* The vector records themselves: what the insert of an item sends to the  *)
(* index (key, embedding, metadata) and what a search gives back, for      *)
(* VectorStoreAwsS3 with dist/src/S3VectorStore.js and for S3Vector.       *)
(* PutVectors stores a record under its key, replacing the record that     *)
(* has the key already.  An item is [key, chunks, json, textField,         *)
(* includeMetadata]: the 'key' parameter (S3Vector), the chunks the        *)
(* splitter makes of its text, items[i].json, and the two parameters of    *)
(* VectorStoreAwsS3 that shape the metadata.  Metadata is a record of      *)
(* fixed fields, Absent (<<>> for a number) where the object lacks the     *)
(* field.  A record keeps, beside what is sent, the item and the chunk it  *)
(* was made of.                                                            *)

\* the number of items put through the insert
MaxInserts == 2

Absent == "absent"

RecChunkLists == {<<"c1">>, <<"c1", "c2">>}
RecChunkTexts == {"c1", "c2"}
\* the 'key' parameter; its default is '' (S3Vector.node.ts line 110)
RecKeys == {"", "doc1"}
TopKs == {1, 2}

\* the fields an item may have under the names of the fields the insert
\* derives: none, or all of them.  A number field is <<>> when the item
\* has no such field and <<n>> when it holds n
SameNamedFields(nd) ==
    {[content |-> Absent, number |-> <<>>]}
    \cup (IF nd = "VectorStoreAwsS3"
          THEN {[content |-> "from input", number |-> <<7>>]}
          ELSE {})

\* the text field, which VectorStoreAwsS3 requires and which an S3Vector
\* item may have or lack, and a field parent_key, which an S3Vector item
\* may have
TextAndParentKey(nd) ==
    IF nd = "VectorStoreAwsS3"
    THEN {[text |-> "whole text", parent_key |-> Absent]}
    ELSE {[text |-> Absent, parent_key |-> Absent],
          [text |-> "whole text", parent_key |-> Absent],
          [text |-> Absent, parent_key |-> "other key"]}

\* items[i].json: a field besides the text, the text field, a field
\* parent_key, and fields named as the derived ones
ItemJsons(nd) ==
    {[source |-> src, text |-> tp.text, parent_key |-> tp.parent_key,
      content |-> same.content, chunkIndex |-> same.number,
      totalChunks |-> same.number, originalLength |-> same.number,
      chunkSize |-> same.number] :
        src \in {"s1", "s2"},
        tp \in TextAndParentKey(nd),
        same \in SameNamedFields(nd)}

\* the textField parameter (the name of the field the text is read from)
\* and options.includeMetadata, which left unset counts as true
\* (`!== false`); S3Vector has neither
MetadataParams(nd) ==
    {[textField |-> "text", includeMetadata |-> TRUE]}
    \cup (IF nd = "VectorStoreAwsS3"
          THEN {[textField |-> "source", includeMetadata |-> TRUE],
                [textField |-> "text", includeMetadata |-> FALSE]}
          ELSE {})

RecItems(nd) ==
    {[key |-> ky, chunks |-> cs, json |-> js, textField |-> mp.textField,
      includeMetadata |-> mp.includeMetadata] :
        ky \in (IF nd = "S3Vector" THEN RecKeys ELSE {""}),
        cs \in RecChunkLists,
        js \in ItemJsons(nd),
        mp \in MetadataParams(nd)}

\* the embedding of a text: the same text gives the same vector
Embed(t) == <<"embedding of", t>>

\* String.prototype.length of the texts of the items
StrLen(t) ==
    CASE t = "whole text" -> 10
      [] t \in {"c1", "c2", "s1", "s2"} -> 2

\* S3VectorStore.generateId lines 216-218: Date.now() and a random suffix,
\* taken here never to repeat; n ids have been made before this one
generateId(n) == <<"vec", n + 1>>

\* {...a, f: b}: the later field wins when there is one
Spread(absent, a, b) == IF b # absent THEN b ELSE a

\* execute lines 377-381: the item's fields without the text field, or
\* nothing when includeMetadata is false
SourceMetadata(item) ==
    [f \in DOMAIN item.json |->
        IF item.includeMetadata /\ f # item.textField
        THEN item.json[f]
        ELSE IF f \in {"source", "text", "parent_key", "content"}
        THEN Absent ELSE <<>>]

\* the fields of the item are spread after the derived ones
DocumentMetadataItemLast(item, c) ==
    LET sm == SourceMetadata(item)
    IN  [source |-> sm.source, text |-> sm.text, parent_key |-> sm.parent_key,
         content |-> sm.content,
         chunkIndex |-> Spread(<<>>, <<c - 1>>, sm.chunkIndex),
         totalChunks |-> Spread(<<>>, <<Len(item.chunks)>>, sm.totalChunks),
         originalLength |->
             Spread(<<>>, <<StrLen(item.json[item.textField])>>, sm.originalLength),
         chunkSize |-> Spread(<<>>, <<StrLen(item.chunks[c])>>, sm.chunkSize),
         textField |-> item.textField]

\* execute lines 387-398: the metadata of the document of chunk c
\* (options.namespace is left unset)
DocumentMetadata(item, c) ==
    LET sm == SourceMetadata(item)
    IN  [source |-> sm.source, text |-> sm.text, parent_key |-> sm.parent_key,
         content |-> sm.content,
         chunkIndex |-> Spread(<<>>, sm.chunkIndex, <<c - 1>>),
         totalChunks |-> Spread(<<>>, sm.totalChunks, <<Len(item.chunks)>>),
         originalLength |->
             Spread(<<>>, sm.originalLength, <<StrLen(item.json[item.textField])>>),
         chunkSize |-> Spread(<<>>, sm.chunkSize, <<StrLen(item.chunks[c])>>),
         textField |-> item.textField]

\* the record addDocuments makes of chunk c of an item (S3VectorStore.js
\* lines 56-67, 157-163): the document's metadata, then content
VsRecord(item, c) ==
    LET dm == DocumentMetadata(item, c)
    IN  [key |-> generateId(rIdCount + c - 1),
         item |-> item,
         chunk |-> c,
         text |-> item.chunks[c],
         data |-> Embed(item.chunks[c]),
         metadata |-> [dm EXCEPT
                          !.content = Spread(Absent, dm.content, item.chunks[c])]]

\* the record insert_data makes of chunk c (S3Vector.node.ts lines 210-220):
\* the fields of items[i].json are spread last and win
S3Record(item, c) ==
    [key |-> <<item.key, "_chunk_", c - 1>>,
     item |-> item,
     chunk |-> c,
     text |-> item.chunks[c],
     data |-> Embed(item.chunks[c]),
     metadata |-> [item.json EXCEPT
                      !.text = Spread(Absent, item.chunks[c], item.json.text),
                      !.parent_key = Spread(Absent, item.key, item.json.parent_key)]]

\* PutVectors of the records recs: each takes the place of the stored
\* record with its key
PutVectors(recs) ==
    {v \in rVectors : \A c \in 1..Len(recs) : recs[c].key # v.key}
    \cup {[key |-> recs[c].key, data |-> recs[c].data,
           metadata |-> recs[c].metadata] : c \in 1..Len(recs)}

\* the answers the provider may give a query for vector q: topK stored
\* records (all of them when there are fewer), none at a greater distance
\* than a record left out, those with the very vector q first
RecAnswers(q, topK) ==
    LET n == Min(topK, Cardinality(rVectors))
        exact == {v \in rVectors : v.data = q}
        Rec(v) == [key |-> v.key, metadata |-> v.metadata,
                   score |-> IF v.data = q THEN 1 ELSE 0]
        picks == {a \in [1..n -> rVectors] :
                    /\ \A x, y \in 1..n : x # y => a[x] # a[y]
                    /\ \A x \in 1..n :
                          a[x] \notin exact =>
                              \A e \in exact : \E y \in 1..(x - 1) : a[y] = e}
    IN  {[x \in 1..n |-> Rec(a[x])] : a \in picks}

NoAnswer == [field |-> "none", records |-> <<>>]

InitRec ==
    /\ SplitIdle
    /\ ExecIdle
    /\ StoreIdle
    /\ rNode \in Nodes
    /\ rVectors = {}
    /\ rInserted = <<>>
    /\ rIdCount = 0
    /\ rInsertCount = 0
    /\ rQuery = NoQuery
    /\ rAnswer = NoAnswer
    /\ rResults = <<>>
    /\ rpc = "ready"

\* the insert of one item, whose provider calls succeed or not as a whole
\* (an item of so few chunks is one embedDocuments and one PutVectors)
InsertItem(nd) ==
    /\ rpc = "ready"
    /\ rInsertCount < MaxInserts
    /\ rInsertCount' = rInsertCount + 1
    /\ \E item \in RecItems(nd), ok \in BOOLEAN :
          LET recs == [c \in 1..Len(item.chunks) |->
                          IF nd = "VectorStoreAwsS3" THEN VsRecord(item, c)
                          ELSE S3Record(item, c)]
          IN  IF ok
              THEN /\ rVectors' = PutVectors(recs)
                   /\ rInserted' = rInserted \o recs
                   /\ rIdCount' = IF nd = "VectorStoreAwsS3"
                                  THEN rIdCount + Len(recs) ELSE rIdCount
              ELSE UNCHANGED <<rVectors, rInserted, rIdCount>>
    /\ UNCHANGED <<rNode, rQuery, rAnswer, rResults, rpc>>
    /\ UNCHANGED besidesRec

\* VectorStoreAwsS3: execute lines 377-413 and addDocuments lines 48-74
RecAddDocuments ==
    /\ rNode = "VectorStoreAwsS3"
    /\ InsertItem("VectorStoreAwsS3")

\* S3Vector: insert_data lines 204-232
RecInsertData ==
    /\ rNode = "S3Vector"
    /\ InsertItem("S3Vector")

\* one search, and what the node makes of the provider's answer
SearchItem(nd) ==
    /\ rpc = "ready"
    /\ \E t \in RecChunkTexts, topK \in TopKs, field \in ResponseFields :
          \E records \in RecAnswers(Embed(t), topK) :
              /\ rQuery' = [text |-> t, topK |-> topK]
              /\ rAnswer' = [field |-> field, records |-> records]
              /\ rResults' = IF nd = "VectorStoreAwsS3"
                              THEN VsSearchResults(field, records)
                              ELSE S3SearchResults(field, records)
    /\ rpc' = "searched"
    /\ UNCHANGED <<rNode, rVectors, rInserted, rIdCount, rInsertCount>>
    /\ UNCHANGED besidesRec

\* VectorStoreAwsS3: similaritySearchWithScore lines 121-127, searchVectors
\* lines 172-195, execute lines 452-477
RecSimilaritySearch ==
    /\ rNode = "VectorStoreAwsS3"
    /\ SearchItem("VectorStoreAwsS3")

\* S3Vector: search_vectors lines 233-251
RecSearchVectors ==
    /\ rNode = "S3Vector"
    /\ SearchItem("S3Vector")

NextRec ==
    \/ RecAddDocuments
    \/ RecInsertData
    \/ RecSimilaritySearch
    \/ RecSearchVectors

SpecRec == InitRec /\ [][NextRec]_vars

----------------------------------------------------------------------------
(* Properties of execute().                                                *)

ItemIndexes == 0..(Len(items) - 1)

\* item idx was rejected by the node's own validation
ConfigError(idx) ==
    /\ ~items[idx + 1].valid
    /\ idx < i \/ (idx = i /\ outcome = "thrown")

\* a provider call made for item idx failed
ProviderError(idx) ==
    \E n \in 1..Len(calls) : calls[n].item = idx /\ ~calls[n].ok

ItemFailed(idx) == ConfigError(idx) \/ ProviderError(idx)

\* item idx was taken up: it was rejected, had nothing to insert, or a
\* provider call was made for it
ItemProcessed(idx) ==
    \/ ~items[idx + 1].valid
    \/ node = "VectorStoreAwsS3" /\ operation = "insert" /\ items[idx + 1].nChunks = 0
    \/ \E n \in 1..Len(calls) : calls[n].item = idx

\* C1: with continue-on-failure set, an item that fails (configuration error
\* or provider error) gets a failed-result entry (success = false, with a
\* message) at its place, execute goes on with the items after it, and the
\* invocation itself does not fail; in both nodes.
C1_ContinueOnFailRecordsAndContinues ==
    continueOnFail =>
        /\ outcome # "thrown"
        /\ \A idx \in ItemIndexes :
              ItemFailed(idx) =>
                  /\ idx < Len(returnData)
                  /\ returnData[idx + 1].success = FALSE
                  /\ returnData[idx + 1].error # <<>>
        /\ pc = "done" =>
              /\ outcome = "returned"
              /\ output = returnData
              /\ Len(output) = Len(items)
              /\ \A idx \in ItemIndexes : ItemProcessed(idx)

C1_Witness ==
    /\ continueOnFail
    /\ pc = "done"
    /\ Len(items) = 2
    /\ ProviderError(0)
    /\ output[1].success = FALSE
    /\ output[2].success = TRUE
    /\ \E n \in 1..Len(calls) : calls[n].item = 1

\* C2: without continue-on-failure the first failing item ends the
\* invocation at once: execute throws, no output list is returned (the
\* results of earlier items are dropped), and no provider call is made for
\* any later item, nor any further one for the failing item.
C2_FirstFailureAborts ==
    ~continueOnFail =>
        /\ \A idx \in ItemIndexes :
              ItemFailed(idx) =>
                  /\ outcome = "thrown"
                  /\ pc = "done"
                  /\ output = NoOutput
                  /\ \A n \in 1..Len(calls) : calls[n].item <= idx
        /\ \A n \in 1..Len(calls) : ~calls[n].ok => n = Len(calls)

C2_Witness ==
    /\ ~continueOnFail
    /\ outcome = "thrown"
    /\ Len(items) = 2
    /\ i = 1
    /\ ProviderError(1)
    /\ returnData # <<>>
    /\ returnData[1].success = TRUE
    /\ stored # {}
    /\ output = NoOutput

\* the PutVectors calls made for item idx, in order
PutsOf(idx) ==
    SelectSeq(calls, LAMBDA c : c.api = "PutVectors" /\ c.item = idx)

\* ceil(n / b)
CeilDiv(n, b) == (n + b - 1) \div b

\* the VectorStoreAwsS3 insert of item idx has succeeded
VsInserted(idx) ==
    /\ node = "VectorStoreAwsS3" /\ operation = "insert"
    /\ idx < Len(returnData)
    /\ returnData[idx + 1].success = TRUE

\* the PutVectors calls of item idx are one per batch of b records
OnePutPerBatch(idx, b) ==
    LET n == items[idx + 1].nChunks
        puts == PutsOf(idx)
    IN  /\ Len(puts) = CeilDiv(n, b)
        /\ \A m \in 1..Len(puts) :
              /\ puts[m].from = (m - 1) * b
              /\ puts[m].size = Min(b, n - (m - 1) * b)

\* C9: inserting n records with batch size b makes exactly ceil(n/b)
\* PutVectors calls, each with the next b records in input order and the
\* last with the remainder, for every configurable b.
C9_OnePutPerConfiguredBatch ==
    \A idx \in ItemIndexes : VsInserted(idx) => OnePutPerBatch(idx, batchSize)

\* what C9 says of the batch sizes up to the store's own 100
C9_UpToStoreBatchSize ==
    batchSize <= StoreBatchSize =>
        \A idx \in ItemIndexes : VsInserted(idx) => OnePutPerBatch(idx, batchSize)

\* C10: when PutVectors fails on a batch of an item, no further call is
\* made for that item (no later batch, no delete, no rollback), the batches
\* put before it stay stored at the provider, and the item is reported as
\* failed.
C10_FailedBatchAbortsWithoutRollback ==
    \A n \in 1..Len(calls) :
        (calls[n].api = "PutVectors" /\ ~calls[n].ok) =>
            LET idx == calls[n].item
            IN  /\ \A m \in (n + 1)..Len(calls) : calls[m].item # idx
                /\ \A m \in 1..Len(calls) :
                      calls[m].api \in {"embedDocuments", "PutVectors",
                                        "embedQuery", "QueryVectors"}
                /\ \A m \in 1..(n - 1) :
                      (calls[m].api = "PutVectors" /\ calls[m].item = idx /\ calls[m].ok)
                          => [item |-> idx, from |-> calls[m].from,
                              size |-> calls[m].size] \in stored
                /\ IF continueOnFail
                   THEN /\ idx < Len(returnData)
                        /\ returnData[idx + 1].success = FALSE
                   ELSE outcome = "thrown"

C10_Witness ==
    /\ pc = "done"
    /\ \E n \in 2..Len(calls) :
          /\ calls[n].api = "PutVectors" /\ ~calls[n].ok
          /\ \E m \in 1..(n - 1) :
                /\ calls[m].api = "PutVectors" /\ calls[m].ok
                /\ calls[m].item = calls[n].item
                /\ [item |-> calls[m].item, from |-> calls[m].from,
                    size |-> calls[m].size] \in stored
          /\ calls[n].from + calls[n].size < items[calls[n].item + 1].nChunks

\* the words a message would name a batch by (line 410 logs them:
\* `Processing batch N`)
BatchLabels == <<"batch 1", "batch 2", "batch 3", "batch 4", "batch 5">>

\* the number execute gives the batch that record `from` of an item is in
\* (line 410: Math.floor(j / batchSize) + 1)
BatchNumber(from) == (from \div batchSize) + 1

\* the number insertVectors' own loop gives it within that batch
StoreBatchNumber(from) == ((from % batchSize) \div StoreBatchSize) + 1

\* the message names batch n
NamesBatch(msg, n) == \E t \in 1..Len(msg) : msg[t] = BatchLabels[n]

\* the error execute reports for item idx, once it has failed
ReportedError(idx) ==
    IF continueOnFail THEN returnData[idx + 1].error ELSE thrownMsg

\* C11: when PutVectors fails on batch N of an item, the error reported for
\* the item (failed entry or thrown error) says which batch failed.
C11_FailedBatchIsNamed ==
    \A n \in 1..Len(calls) :
        (calls[n].api = "PutVectors" /\ ~calls[n].ok /\ node = "VectorStoreAwsS3") =>
            \/ NamesBatch(ReportedError(calls[n].item), BatchNumber(calls[n].from))
            \/ NamesBatch(ReportedError(calls[n].item), StoreBatchNumber(calls[n].from))

\* the positions in the log of the calls of one api made for item idx
CallsOf(api, idx) ==
    {n \in 1..Len(calls) : calls[n].api = api /\ calls[n].item = idx}

\* C12: for an item of the insert pipeline embedDocuments is called exactly
\* once, over all chunks of the item, and before the first PutVectors for
\* the item, however many chunks there are.
C12_OneEmbedCallPerItem ==
    operation = "insert" =>
        \A idx \in ItemIndexes :
            LET embeds == CallsOf("embedDocuments", idx)
                puts == CallsOf("PutVectors", idx)
            IN  /\ Cardinality(embeds) <= 1
                /\ puts # {} => Cardinality(embeds) = 1
                /\ \A e \in embeds :
                      /\ calls[e].from = 0
                      /\ calls[e].size = items[idx + 1].nChunks
                      /\ \A p \in puts : e < p

\* what C12 says of the items that fit in one batch, and of S3Vector
C12_OneEmbedCallWithinOneBatch ==
    operation = "insert" =>
        \A idx \in ItemIndexes :
            (node = "S3Vector" \/ items[idx + 1].nChunks <= batchSize) =>
                LET embeds == CallsOf("embedDocuments", idx)
                    puts == CallsOf("PutVectors", idx)
                IN  /\ Cardinality(embeds) <= 1
                    /\ puts # {} => Cardinality(embeds) = 1
                    /\ \A e \in embeds :
                          /\ calls[e].from = 0
                          /\ calls[e].size = items[idx + 1].nChunks
                          /\ \A p \in puts : e < p

\* C13: an item rejected by the node's own validation (text field absent,
\* empty or not a string on insert; metadataFilter that does not parse on
\* search) is rejected before any provider call is made for it, and is
\* reported with the validation's message.
C13_ConfigErrorBeforeAnyCall ==
    \A idx \in ItemIndexes :
        ConfigError(idx) =>
            /\ \A n \in 1..Len(calls) : calls[n].item # idx
            /\ ReportedError(idx) \in {<<"No valid text found in field">>,
                                       <<"Invalid JSON in metadata filter">>}

C13_Witness ==
    /\ pc = "done"
    /\ Len(items) = 2
    /\ Len(returnData) = 2
    /\ ConfigError(1)
    /\ \E n \in 1..Len(calls) : calls[n].item = 0 /\ calls[n].api = "QueryVectors"
    /\ returnData[1].success = TRUE
    /\ returnData[2].error = <<"Invalid JSON in metadata filter">>

\* the message holds the provider's message as it was
HoldsProviderMsg(msg) == \E t \in 1..Len(msg) : msg[t] = ProviderMsg

\* C14: when a provider call fails for an item, the error reported for the
\* item (the failed entry's error with continue-on-failure, the thrown
\* error's message without) holds the provider's own message verbatim; in
\* both nodes, insert and search.
C14_ProviderMessageVerbatim ==
    \A idx \in ItemIndexes :
        ProviderError(idx) =>
            IF continueOnFail
            THEN idx < Len(returnData) /\ HoldsProviderMsg(returnData[idx + 1].error)
            ELSE outcome = "thrown" /\ HoldsProviderMsg(thrownMsg)

\* what C14 says of VectorStoreAwsS3, and of S3Vector's failed entries
C14_VerbatimButForS3VectorThrow ==
    \A idx \in ItemIndexes :
        ProviderError(idx) =>
            /\ idx < Len(returnData) => HoldsProviderMsg(returnData[idx + 1].error)
            /\ (outcome = "thrown" /\ node = "VectorStoreAwsS3")
                  => HoldsProviderMsg(thrownMsg)

\* C17: when options.clearIndex is true the index is cleared (delete-index,
\* then create-index) before any vector of that insert is sent; when it is
\* false or unset no delete-index call is made.
C17_ClearIndexBeforeInsert ==
    (node = "VectorStoreAwsS3" /\ operation = "insert") =>
        /\ clearIndexOpt =>
              \A p \in 1..Len(calls) :
                  calls[p].api = "PutVectors" =>
                      \E d \in 1..(p - 1) :
                          /\ calls[d].api = "DeleteIndex"
                          /\ calls[d].item = calls[p].item
        /\ ~clearIndexOpt =>
              \A p \in 1..Len(calls) : calls[p].api # "DeleteIndex"

\* what the code does with the option: nothing, whatever its value
C17_NoDeleteIndexCall ==
    \A p \in 1..Len(calls) : calls[p].api \notin {"DeleteIndex", "CreateIndex"}

\* the results execute gave for a query are the provider's records, one
\* for one and in the provider's order
SameRecords(results, records) ==
    /\ Len(results) = Len(records)
    /\ \A n \in 1..Len(records) :
          IF node = "VectorStoreAwsS3"
          THEN /\ results[n].content = records[n].metadata.content
               /\ results[n].metadata = records[n].metadata
               /\ results[n].score = records[n].score
          ELSE results[n] = records[n]

\* C18: a query gives exactly the records the provider answered with, one
\* result (content, metadata, score) per record, in the provider's order,
\* none dropped or reordered; an empty answer gives a successful entry
\* with resultsCount = 0 and an empty results list.
C18_ResultsAreProviderRecords ==
    \A q \in 1..Len(calls) :
        (calls[q].api = "QueryVectors" /\ calls[q].ok) =>
            LET entry == returnData[calls[q].item + 1]
            IN  /\ entry.success = TRUE
                /\ SameRecords(entry.results, calls[q].records)
                /\ node = "VectorStoreAwsS3" =>
                      entry.resultsCount = Len(calls[q].records)

\* what C18 says of the answers whose records come in a field the node
\* reads, and of every empty answer
C18_ResultsOfTheFieldRead ==
    \A q \in 1..Len(calls) :
        (/\ calls[q].api = "QueryVectors" /\ calls[q].ok
         /\ \/ calls[q].records = <<>>
            \/ node = "VectorStoreAwsS3" /\ calls[q].field \in {"matches", "results"}
            \/ node = "S3Vector" /\ calls[q].field = "vectors") =>
            LET entry == returnData[calls[q].item + 1]
            IN  /\ entry.success = TRUE
                /\ SameRecords(entry.results, calls[q].records)
                /\ node = "VectorStoreAwsS3" =>
                      entry.resultsCount = Len(calls[q].records)

\* C21: items and insert batches are processed one after the other: the
\* provider calls of an invocation are made in item order, a call for an
\* item is made only when every earlier item has its outcome, and the
\* PutVectors calls of an item go through its records in order.  (Every
\* provider call is awaited where it is made, so a call is under way only
\* at the one position `pc`, and ends before the next is made.)
C21_StrictlySequential ==
    /\ \A m, n \in 1..Len(calls) :
          m < n =>
              /\ calls[m].item <= calls[n].item
              /\ (calls[m].item = calls[n].item /\ calls[m].api = "PutVectors"
                  /\ calls[n].api \in {"PutVectors", "embedDocuments"})
                    => calls[m].from + calls[m].size <= calls[n].from
    /\ \A n \in 1..Len(calls) :
          /\ calls[n].item <= i
          /\ \A idx \in 0..(calls[n].item - 1) : idx < Len(returnData)
    /\ pc \in {"addDocuments", "insertVectors", "embedQuery", "queryVectors",
               "s3EmbedDocuments", "s3PutVectors", "s3EmbedQuery",
               "s3QueryVectors"} => (i < Len(items) /\ Len(returnData) = i)

C21_Witness ==
    /\ pc = "insertVectors"
    /\ i = 1
    /\ j > 0
    /\ Cardinality(CallsOf("PutVectors", 0)) >= 2
    /\ Cardinality(CallsOf("PutVectors", 1)) >= 1

\* C22: no provider call is retried: each embedding, insert and query
\* request of an item (and batch) is made at most once in an invocation,
\* and after a call of an item has failed no call is made for that item
\* again; the item fails once.
C22_NoRetry ==
    /\ \A m, n \in 1..Len(calls) :
          (m # n /\ calls[m].item = calls[n].item /\ calls[m].api = calls[n].api)
              => calls[m].from # calls[n].from
    /\ \A n \in 1..Len(calls) :
          ~calls[n].ok =>
              /\ n = Max({m \in 1..Len(calls) : calls[m].item = calls[n].item})
              /\ IF continueOnFail
                 THEN /\ i > calls[n].item
                      /\ returnData[calls[n].item + 1].success = FALSE
                 ELSE outcome = "thrown" /\ i = calls[n].item

C22_Witness ==
    /\ pc = "done"
    /\ continueOnFail
    /\ Len(items) = 2
    /\ \E n \in 1..Len(calls) :
          /\ calls[n].item = 0 /\ ~calls[n].ok /\ calls[n].api = "PutVectors"
          /\ calls[n].from > 0
    /\ \E n \in 1..Len(calls) : calls[n].item = 1 /\ ~calls[n].ok

\* C25: an embedDocuments call that fails sends nothing on: no PutVectors
\* call is made for the texts of that batch (nor any further call for the
\* item), no record of the batch is stored, and the item fails with the one
\* error: a failed record under continue-on-failure, else the invocation
\* throws.  Records of the item's earlier batches stay stored.
C25_FailedEmbeddingSendsNothing ==
    \A n \in 1..Len(calls) :
        (calls[n].api = "embedDocuments" /\ ~calls[n].ok) =>
            /\ \A m \in 1..Len(calls) :
                  (calls[m].api = "PutVectors" /\ calls[m].item = calls[n].item)
                      => (m < n /\ calls[m].from + calls[m].size <= calls[n].from)
            /\ \A r \in stored :
                  r.item = calls[n].item => r.from + r.size <= calls[n].from
            /\ \A m \in (n + 1)..Len(calls) : calls[m].item > calls[n].item
            /\ IF continueOnFail
               THEN /\ Len(returnData) > calls[n].item
                    /\ returnData[calls[n].item + 1].success = FALSE
                    /\ returnData[calls[n].item + 1].error = <<ProviderMsg>>
               ELSE outcome = "thrown" /\ pc = "done"

C25_Witness ==
    /\ node = "VectorStoreAwsS3"
    /\ continueOnFail
    /\ pc = "done"
    /\ \E n \in 1..Len(calls) :
          /\ calls[n].api = "embedDocuments" /\ ~calls[n].ok
          /\ calls[n].item = 0
          /\ calls[n].from > 0
          /\ \E r \in stored : r.item = 0
          /\ n < Len(calls)

\* C26: with continue-on-failure, whatever items succeed and fail, execute
\* returns exactly one record per input item, in item order (while the loop
\* runs, the records so far are those of the items before the cursor), and
\* record idx has success = false exactly when item idx failed.
C26_OneRecordPerItemInOrder ==
    continueOnFail =>
        /\ outcome # "thrown"
        /\ pc = "done" => (output = returnData /\ Len(output) = Len(items))
        /\ Len(returnData) = IF pc = "done" THEN Len(items) ELSE i
        /\ \A idx \in 0..(Len(returnData) - 1) :
              /\ returnData[idx + 1].success = ~ItemFailed(idx)
              /\ (node = "VectorStoreAwsS3" /\ ItemFailed(idx))
                    => returnData[idx + 1].itemIndex = idx
              /\ (node = "VectorStoreAwsS3" /\ operation = "insert"
                  /\ ~ItemFailed(idx))
                    => returnData[idx + 1].chunksCreated = items[idx + 1].nChunks

C26_Witness ==
    /\ continueOnFail
    /\ pc = "done"
    /\ Len(items) = 2
    /\ Len(output) = 2
    /\ output[1].success = TRUE
    /\ output[2].success = FALSE
    /\ ItemFailed(1)
    /\ ~ItemFailed(0)

----------------------------------------------------------------------------
(* Properties of the store and its index.                                  *)

\* the positions in the log of the calls of one api made by method call n
StoreCallsOf(api, n) ==
    {c \in 1..Len(storeCalls) : storeCalls[c].api = api /\ storeCalls[c].op = n}

\* the message is the error's own message behind the prefixes of the
\* catches it went through
EndsWith(msg, tail) ==
    /\ Len(msg) >= Len(tail)
    /\ SubSeq(msg, Len(msg) - Len(tail) + 1, Len(msg)) = tail

\* (a call of initialize() that made the embedding probe is one call of
\* ensureIndexExists and nothing else)
\* C15: ensureIndex is idempotent: on an index that is there already it
\* returns without error and leaves the index as it was (the provider's
\* already-exists answer to CreateIndex counts as success); any other
\* error, the failure of the embedding call that probes the dimension
\* included, ends the call with that error.
C15_EnsureIndexIdempotent ==
    \A n \in 1..Len(ops) :
        LET op == ops[n]
            embeds == StoreCallsOf("embedQuery", n)
            creates == StoreCallsOf("CreateIndex", n)
        IN  (op.method = "initialize" /\ embeds # {}) =>
                /\ op.before.exists => op.after = op.before
                /\ \A c \in creates :
                      (storeCalls[c].err \in AlreadyExistsErrors /\ op.result # Crashed)
                          => op.result = Ok /\ op.after = op.before
                /\ \A c \in creates \cup embeds :
                      (storeCalls[c].err \in OtherErrors \cup EmbedErrors
                       /\ op.result # Crashed) =>
                          /\ op.result # Ok
                          /\ EndsWith(op.result, storeCalls[c].err.message)
                          /\ \A d \in 1..Len(storeCalls) :
                                storeCalls[d].op = n => d <= c
                /\ op.result = Ok => op.after.exists

C15_Witness ==
    /\ Len(ops) = 2
    /\ ops[1].method = "initialize" /\ ops[1].result = Ok /\ ops[1].before.exists
    /\ ops[1].before.size = 1
    /\ \E c \in StoreCallsOf("CreateIndex", 1) :
          storeCalls[c].err.name = "ValidationException"
    /\ ops[2].method = "initialize" /\ ops[2].result # Ok
    /\ \E c \in StoreCallsOf("embedQuery", 2) : ~storeCalls[c].ok

\* method call n deleted the index
Deleted(n) == \E d \in StoreCallsOf("DeleteIndex", n) : storeCalls[d].ok

------------------------------------------------------------\* C30: for one store, through any sequence of initialize, addDocuments
\* and clearIndex in which any provider call may fail: between two calls,
\* whenever the initialized flag is true the index exists at the provider;
\* and a failed initialize leaves the flag false.
C30_InitializedMeansIndexExists ==
    /\ (stpc = "idle" /\ initialized) => index.exists
    /\ (stpc = "idle" /\ ops # <<>> /\ ops[Len(ops)].method = "initialize"
        /\ ops[Len(ops)].result # Ok) => ~initialized

\* what the code gives for C30: a failed initialize leaves the flag false,
\* and the flag is true without an index only after a clearIndex that
\* deleted the index and failed to create it again
C30_FlagOutlivesFailedClear ==
    /\ (stpc = "idle" /\ ops # <<>> /\ ops[Len(ops)].method = "initialize"
        /\ ops[Len(ops)].result # Ok) => ~initialized
    /\ (stpc = "idle" /\ initialized /\ ~index.exists) =>
          \E n \in 1..Len(ops) :
              /\ ops[n].method = "clearIndex"
              /\ ops[n].result \notin {Ok, Crashed}
              /\ \E c \in 1..Len(storeCalls) :
                    /\ storeCalls[c].op = n
                    /\ storeCalls[c].api = "DeleteIndex"
                    /\ storeCalls[c].ok

----------------
(* Properties of the vector records.                                       *)

\* the text a result gives for its record: `content` in VectorStoreAwsS3's
\* results, metadata.text in the records S3Vector hands on
ResultContent(r) ==
    IF rNode = "VectorStoreAwsS3" THEN r.content ELSE r.metadata.text

\* the stored records whose vector is the query's
ExactMatches == {v \in rVectors : v.data = Embed(rQuery.text)}

\* C19: round trip: after a chunk has been inserted, a search whose query
\* embeds to that chunk's embedding (topK >= 1, no filter, and no more
\* records with that very embedding than topK) gives a result whose
\* content is the chunk's text and whose metadata is the metadata the
\* chunk was stored with.
C19_RoundTrip ==
    rpc = "searched" =>
        \A n \in 1..Len(rInserted) :
            (/\ rInserted[n].data = Embed(rQuery.text)
             /\ Cardinality(ExactMatches) <= rQuery.topK) =>
                \E r \in 1..Len(rResults) :
                    /\ ResultContent(rResults[r]) = rInserted[n].text
                    /\ rResults[r].metadata = rInserted[n].metadata

\* what C19 says when the answer comes in the field the node reads, no key
\* was used twice and no field of the item stands in the chunk text's
\* place
C19_RoundTripOfTheFieldRead ==
    (/\ rpc = "searched"
     /\ IF rNode = "VectorStoreAwsS3"
        THEN rAnswer.field \in {"matches", "results"}
        ELSE rAnswer.field = "vectors"
     /\ Cardinality(rVectors) = Len(rInserted)) =>
        \A n \in 1..Len(rInserted) :
            (/\ rInserted[n].data = Embed(rQuery.text)
             /\ Cardinality(ExactMatches) <= rQuery.topK
             /\ rInserted[n].metadata.text \in {Absent, rInserted[n].text}) =>
                \E r \in 1..Len(rResults) :
                    /\ ResultContent(rResults[r]) = rInserted[n].text
                    /\ rResults[r].metadata = rInserted[n].metadata

\* C20: every vector record gets an id of its own: the ids of the records
\* inserted are pairwise distinct, and inserting the same document twice
\* leaves two records in the index (the second insert does not replace
\* the first).
C20_FreshIdPerRecord ==
    /\ \A a, b \in 1..Len(rInserted) :
          a # b => rInserted[a].key # rInserted[b].key
    /\ Cardinality(rVectors) = Len(rInserted)


------------------------------------------------------------\* C28: a VectorStoreAwsS3 insert that yields k chunks makes records that
\* carry chunkIndex 0..k-1 in order, totalChunks = k, originalLength = the
\* length of the text, chunkSize = the length of the chunk and content =
\* the chunk's text; these derived fields win over fields of the item with
\* the same names; the configured text field is never copied into the
\* metadata, and no field of the item is copied when includeMetadata is
\* false.
C28_DerivedMetadata ==
    rNode = "VectorStoreAwsS3" =>
        \A n \in 1..Len(rInserted) :
            LET r == rInserted[n]
                md == r.metadata
            IN  /\ md.chunkIndex = <<r.chunk - 1>>
                /\ md.totalChunks = <<Len(r.item.chunks)>>
                /\ md.originalLength = <<StrLen(r.item.json[r.item.textField])>>
                /\ md.chunkSize = <<StrLen(r.text)>>
                /\ md.content = r.text
                /\ md[r.item.textField] = Absent
                /\ ~r.item.includeMetadata =>
                      (md.source = Absent /\ md.text = Absent
                       /\ md.parent_key = Absent)
                /\ IF r.chunk = 1
                   THEN n = 1 \/ rInserted[n - 1].chunk
                                    = Len(rInserted[n - 1].item.chunks)
                   ELSE /\ rInserted[n - 1].chunk = r.chunk - 1
                        /\ rInserted[n - 1].item = r.item

C28_Witness ==
    /\ rNode = "VectorStoreAwsS3"
    /\ Len(rInserted) = 3
    /\ rInserted[2].chunk = 2
    /\ rInserted[2].item.includeMetadata
    /\ rInserted[2].item.json.content = "from input"
    /\ rInserted[2].item.json.chunkIndex = <<7>>
    /\ rInserted[2].item.textField = "source"
    /\ rInserted[2].metadata.text = "whole text"
    /\ ~rInserted[3].item.includeMetadata

\* C29: every record of an S3Vector insert is stored with metadata text =
\* the chunk's text and parent_key = the item's key, also when the item's
\* JSON has fields named text or parent_key.
C29_TextAndParentKey ==
    rNode = "S3Vector" =>
        \A n \in 1..Len(rInserted) :
            /\ rInserted[n].metadata.text = rInserted[n].text
            /\ rInserted[n].metadata.parent_key = rInserted[n].item.key

\* what the code gives for C29: text and parent_key are the chunk's text
\* and the item's key when the item has no field of that name, and the
\* item's own field otherwise
C29_ItemFieldsWin ==
    rNode = "S3Vector" =>
        \A n \in 1..Len(rInserted) :
            LET r == rInserted[n]
            IN  /\ r.metadata.text = IF r.item.json.text = Absent
                                     THEN r.text ELSE r.item.json.text
                /\ r.metadata.parent_key = IF r.item.json.parent_key = Absent
                                           THEN r.item.key
                                           ELSE r.item.json.parent_key

----------------
(* Properties of splitText.                                                *)

\* chunkSize >= 1 and 0 <= chunkOverlap < chunkSize
ValidPair == chunkSize >= 1 /\ chunkOverlap >= 0 /\ chunkOverlap < chunkSize

\* the strings splitText returned
Returned == [n \in 1..Len(result) |-> result[n].text]

\* C3: for every text and every valid (chunkSize, chunkOverlap), splitText
\* terminates: a call that has started eventually returns.
C3_Terminates == ValidPair => <>(spc = "done")

\* C4: a text no longer than chunkSize is returned as the one-element
\* sequence [text], unsplit, untrimmed and unfiltered.
C4_ShortTextIsSingleChunk ==
    (spc = "done" /\ Len(text) <= chunkSize) => Returned = <<text>>

C4_Witness ==
    /\ spc = "done"
    /\ Len(text) = chunkSize
    /\ Returned = <<text>>
    /\ \E n \in 1..Len(text) : text[n] = " "

\* C5: no element of the returned sequence is empty or whitespace-only,
\* whatever the length of the text; an empty or whitespace-only text gives
\* the empty sequence.
C5_NoBlankChunk ==
    (spc = "done" /\ ValidPair) =>
        /\ \A n \in 1..Len(Returned) : TrimNonEmpty(Returned[n])
        /\ (~TrimNonEmpty(text) => Returned = <<>>)

\* what C5 says of the texts longer than chunkSize, which reach the filter
C5_LongTextNoBlankChunk ==
    (spc = "done" /\ Len(text) > chunkSize) =>
        \A n \in 1..Len(Returned) : TrimNonEmpty(Returned[n])

SpacesIn(s, e) == {p \in (s + 1)..Min(e, Len(text) - 1) : text[p + 1] = " "}

\* C7: a window that starts at s and whose right edge e = s + chunkSize is
\* before the end of the text is cut at the greatest space position p with
\* s < p <= e when there is one (the chunk is text[s..p)), and at e only when
\* there is none.
C7_CutAtLastSpace ==
    [][(spc = "loop" /\ spc' = "advance" /\ start + chunkSize < Len(text)) =>
         LET s == start
             e == start + chunkSize
             pushed == chunks'[Len(chunks')]
             cut == IF SpacesIn(s, e) # {}
                    THEN CHOOSE p \in SpacesIn(s, e) : \A q \in SpacesIn(s, e) : q <= p
                    ELSE e
         IN  /\ end' = cut
             /\ Len(chunks) < MaxChunks =>
                   /\ Len(chunks') = Len(chunks) + 1
                   /\ pushed.from = s
                   /\ pushed.text = SubSeq(text, s + 1, cut)
      ]_vars

C7_Witness ==
    /\ spc = "advance"
    /\ start > 0
    /\ start + chunkSize < Len(text)
    /\ end < start + chunkSize
    /\ \E p \in SpacesIn(start, start + chunkSize) : p < end
    /\ Len(chunks) < MaxChunks

\* the positions of the text that hold a non-whitespace character
NonWhitespacePositions == {p \in 0..(Len(text) - 1) : text[p + 1] \notin Whitespace}

\* position p lies inside the n-th returned chunk
Covers(n, p) == result[n].from <= p /\ p < result[n].from + Len(result[n].text)

AllContentCovered ==
    \A p \in NonWhitespacePositions : \E n \in 1..Len(result) : Covers(n, p)

\* C8: for every text and valid pair no content is lost: splitText returns
\* chunks that between them hold every non-whitespace position of the text.
C8_NoContentLost == ValidPair => <>(spc = "done" /\ AllContentCovered)

\* what C8 says of the calls that do return
C8_ReturnedChunksCoverText == (spc = "done" /\ ValidPair) => AllContentCovered

\* C23: the cursor makes forward progress: for a valid pair the start of
\* each iteration is strictly greater than the start of the one before;
\* when end - chunkOverlap would be <= 0 or <= the previous start, the
\* cursor is set to end instead.
C23_CursorMovesForward ==
    [][(spc = "advance" /\ spc' = "loop" /\ ValidPair) =>
         /\ start' > start
         /\ start' = IF end - chunkOverlap <= 0 \/ end - chunkOverlap <= start
                     THEN end ELSE end - chunkOverlap
      ]_vars

\* what the code gives for C23: the cursor is end - chunkOverlap unless
\* that is <= 0, and it moves forward whenever the window was cut more
\* than chunkOverlap after its start
C23_CursorMovesForwardAfterLongCut ==
    [][(spc = "advance" /\ spc' = "loop" /\ ValidPair) =>
         /\ start' = IF end - chunkOverlap <= 0 THEN end ELSE end - chunkOverlap
         /\ end - start > chunkOverlap => start' > start
      ]_vars

\* C24: with chunkSize 1000 and chunkOverlap 200, a text of 2500 characters
\* that contains spaces is split into exactly 3 or 4 chunks, each of at most
\* 1000 characters and none empty.
C24_ThreeOrFourChunks ==
    (spc = "done" /\ chunkSize = DefaultChunkSize
                  /\ chunkOverlap = DefaultChunkOverlap) =>
        /\ Len(result) \in {3, 4}
        /\ \A n \in 1..Len(result) :
              /\ Len(result[n].text) <= DefaultChunkSize
              /\ Len(result[n].text) > 0

\* what the code gives for C24: when the call returns, at least 4 chunks,
\* each of at most 1000 characters and none empty.
C24_AtLeastFourChunks ==
    (spc = "done" /\ chunkSize = DefaultChunkSize
                  /\ chunkOverlap = DefaultChunkOverlap) =>
        /\ Len(result) >= 4
        /\ \A n \in 1..Len(result) :
              /\ Len(result[n].text) <= DefaultChunkSize
              /\ Len(result[n].text) > 0

=============================================================================
